---- MODULE Spec2Model ----
(***************************************************************************)
(* Model of advanced-vector/vector.h: RawMemory<T> (an owned region of     *)
(* uninitialised memory) and Vector<T> (a growable array built on it).     *)
(*                                                                         *)
(* The heap is a map from region ids to the sequence of its slots.  A slot *)
(* is Raw (no object lives there) or holds the value of a constructed T.   *)
(* Every member function is one action.  An action draws the point at      *)
(* which an allocation or an element operation throws (failAt), runs the   *)
(* whole function body, catch blocks and destructors of locals included,   *)
(* and records in `last` what was called and how it ended.                 *)
(***************************************************************************)
EXTENDS Integers, Sequences, FiniteSets, TLC

VARIABLES
    T,        \* the traits of the element type the containers are instantiated with
    heap,     \* region id -> sequence of slots; <<>> when the region is not allocated
    vec,      \* Vector<T> objects: name -> [alive, data_ : RawMemory, size_]
    raw,      \* stand-alone RawMemory<T> objects: name -> [alive, buffer_, capacity_]
    faults,   \* lifetime errors of the last call: "leak", "doubleDestroy", "doubleFree", "rawAccess"
    pushes,   \* values handed to PushBack since the vector `a` was default constructed
    reallocs, \* number of buffers PushBack acquired since then
    last      \* the last member function called, its arguments and its outcome

vars == <<T, heap, vec, raw, faults, pushes, reallocs, last>>

----------------------------------------------------------------------------
(* Bounds of the model. *)

MaxSize == 3       \* largest size of the vector in Spec
MaxPairSize == 2   \* largest size of a vector in SpecPair and SpecMove
MaxVal == 1        \* element values handed to the operations are 1..MaxVal
MaxPush == 30      \* number of PushBack calls in SpecPush
MaxRawCap == 2     \* largest capacity of a stand-alone RawMemory in SpecRaw

(* Slot contents. *)
Raw == -1          \* uninitialised memory: no T object lives in the slot
MovedFrom == -2    \* value of a T that has been the source of a move
DefaultValue == 0  \* value of T()
Val == 1..MaxVal

NullPtr == 0
Regions == 1..3

VecNames == {"a", "b"}
RawNames == {"dst", "src"}

(* Element types.  nothrowMove: std::is_nothrow_move_constructible_v<T>;   *)
(* copyable: std::is_copy_constructible_v<T>; stealing: a move leaves the  *)
(* source with another value than it had (std::string, unique_ptr), as     *)
(* opposed to a move that is a copy (int).                                 *)
ElemTypes ==
    { [nothrowMove |-> TRUE,  copyable |-> TRUE,  stealing |-> TRUE],
      [nothrowMove |-> TRUE,  copyable |-> TRUE,  stealing |-> FALSE],
      [nothrowMove |-> FALSE, copyable |-> TRUE,  stealing |-> TRUE],
      [nothrowMove |-> FALSE, copyable |-> FALSE, stealing |-> TRUE] }

----------------------------------------------------------------------------
(* The machine state threaded through a member function:                   *)
(*   heap    the heap,                                                     *)
(*   fuel    {k}: the steps that may throw succeed k times and the next    *)
(*           one throws; {}: no step throws,                               *)
(*   thrown  an exception is in flight,                                    *)
(*   faults  lifetime errors of this call.                                 *)

Machine(failAt) ==
    [heap |-> heap, fuel |-> failAt, thrown |-> FALSE, faults |-> {}]

NoFail == {}

(* A step that may throw: it throws when the fuel is used up. *)
MayThrow(m) ==
    IF m.fuel = NoFail THEN m
    ELSE IF m.fuel = {0} THEN [m EXCEPT !.thrown = TRUE, !.fuel = NoFail]
    ELSE [m EXCEPT !.fuel = {k - 1 : k \in @}]

Fault(m, f) == [m EXCEPT !.faults = @ \cup {f}]

InRegion(m, p, i) == p \in Regions /\ i >= 0 /\ i < Len(m.heap[p])

(* Reading the T at slot i of region p; Touch flags the read of a slot in   *)
(* which no object lives.                                                  *)
Load(m, p, i) ==
    IF InRegion(m, p, i) THEN m.heap[p][i + 1] ELSE Raw

Touch(m, p, i) ==
    IF InRegion(m, p, i) /\ m.heap[p][i + 1] # Raw THEN m ELSE Fault(m, "rawAccess")

Store(m, p, i, v) ==
    IF InRegion(m, p, i) THEN [m EXCEPT !.heap[p][i + 1] = v] ELSE Fault(m, "rawAccess")

(* Giving a new value to the object in slot i; memory that holds no object *)
(* still holds none afterwards.                                            *)
Leave(m, p, i, v) ==
    IF InRegion(m, p, i) /\ m.heap[p][i + 1] # Raw THEN Store(m, p, i, v) ELSE m

(* new (p + i) T(...): starts the lifetime of an object in slot i.  An      *)
(* object already living there is overwritten without being destroyed.     *)
ConstructAt(m, p, i, v) ==
    Store(IF InRegion(m, p, i) /\ m.heap[p][i + 1] # Raw THEN Fault(m, "leak") ELSE m,
          p, i, v)

(* std::destroy_at(p + i) *)
destroy_at(m, p, i) ==
    IF InRegion(m, p, i) /\ m.heap[p][i + 1] # Raw
    THEN Store(m, p, i, Raw)
    ELSE Fault(m, "doubleDestroy")

(* The moved-from source of a move. *)
AfterMove(v) == IF T.stealing THEN MovedFrom ELSE v

(* In the definitions below a local operator is the rest of a function     *)
(* body after a step; its parameter is the machine (or the result) the     *)
(* step gave, and the body is skipped while an exception is in flight.     *)

(* T(): may throw. *)
DefaultCtor(m, p, i) ==
    LET Built(m1) == IF m1.thrown THEN m1 ELSE ConstructAt(m1, p, i, DefaultValue)
    IN  Built(MayThrow(m))

(* T(args...): may throw. *)
ArgCtor(m, p, i, v) ==
    LET Built(m1) == IF m1.thrown THEN m1 ELSE ConstructAt(m1, p, i, v)
    IN  Built(MayThrow(m))

(* T(const T&): may throw. *)
CopyCtor(m, sp, si, dp, di) ==
    LET Built(m1) ==
            IF m1.thrown THEN m1
            ELSE ConstructAt(Touch(m1, sp, si), dp, di, Load(m1, sp, si))
    IN  Built(MayThrow(m))

(* T(T&&): throws only when T is not nothrow move constructible. *)
MoveCtor(m, sp, si, dp, di) ==
    LET Built(m1, v) ==
            IF m1.thrown THEN m1
            ELSE Leave(ConstructAt(Touch(m1, sp, si), dp, di, v), sp, si, AfterMove(v))
    IN  Built(IF T.nothrowMove THEN m ELSE MayThrow(m), Load(m, sp, si))

(* T::operator=(const T&): may throw. *)
CopyAssign(m, sp, si, dp, di) ==
    LET Assigned(m1) ==
            IF m1.thrown THEN m1
            ELSE Leave(Touch(Touch(m1, sp, si), dp, di), dp, di, Load(m1, sp, si))
    IN  Assigned(MayThrow(m))

(* T::operator=(T&&): may throw. *)
MoveAssign(m, sp, si, dp, di) ==
    LET Assigned(m1, v) ==
            IF m1.thrown THEN m1
            ELSE Leave(Leave(Touch(Touch(m1, sp, si), dp, di), dp, di, v),
                       sp, si, AfterMove(v))
    IN  Assigned(MayThrow(m), Load(m, sp, si))

----------------------------------------------------------------------------
(* The standard algorithms the containers call. *)

RECURSIVE destroy_n(_, _, _, _)
(* std::destroy_n(p + off, n) *)
destroy_n(m, p, off, n) ==
    IF n <= 0 THEN m ELSE destroy_n(destroy_at(m, p, off), p, off + 1, n - 1)

RECURSIVE UninitFill_NoRollback(_, _, _, _, _, _, _, _)
(* The loop without its clean-up: the objects constructed before the one    *)
(* that throws are left alive.                                              *)
UninitFill_NoRollback(m, kind, sp, sof, dp, dof, k, n) ==
    LET Built(m1) ==
            IF m1.thrown THEN m1
            ELSE UninitFill_NoRollback(m1, kind, sp, sof, dp, dof, k + 1, n)
    IN  IF k >= n THEN m
        ELSE Built(CASE kind = "value" -> DefaultCtor(m, dp, dof + k)
                     [] kind = "copy"  -> CopyCtor(m, sp, sof + k, dp, dof + k)
                     [] kind = "move"  -> MoveCtor(m, sp, sof + k, dp, dof + k))

RECURSIVE UninitFill(_, _, _, _, _, _, _, _)
(* The loop of std::uninitialized_{value_construct,copy,move}_n: construct *)
(* the objects one by one; if one throws, destroy those constructed so far *)
(* and leave the exception in flight.                                      *)
UninitFill(m, kind, sp, sof, dp, dof, k, n) ==
    LET Built(m1) ==
            IF m1.thrown THEN destroy_n(m1, dp, dof, k)
            ELSE UninitFill(m1, kind, sp, sof, dp, dof, k + 1, n)
    IN  IF k >= n THEN m
        ELSE Built(CASE kind = "value" -> DefaultCtor(m, dp, dof + k)
                     [] kind = "copy"  -> CopyCtor(m, sp, sof + k, dp, dof + k)
                     [] kind = "move"  -> MoveCtor(m, sp, sof + k, dp, dof + k))

uninitialized_value_construct_n(m, p, off, n) ==
    UninitFill(m, "value", NullPtr, 0, p, off, 0, n)

uninitialized_copy_n(m, sp, sof, n, dp, dof) ==
    UninitFill(m, "copy", sp, sof, dp, dof, 0, n)

uninitialized_move_n(m, sp, sof, n, dp, dof) ==
    UninitFill(m, "move", sp, sof, dp, dof, 0, n)

RECURSIVE std_copy(_, _, _, _, _, _)
(* std::copy(sp + sof, sp + sof + n, dp + dof): copy assignment, front to back *)
std_copy(m, sp, sof, n, dp, dof) ==
    LET Assigned(m1) ==
            IF m1.thrown THEN m1 ELSE std_copy(m1, sp, sof + 1, n - 1, dp, dof + 1)
    IN  IF n <= 0 THEN m ELSE Assigned(CopyAssign(m, sp, sof, dp, dof))

RECURSIVE std_move(_, _, _, _, _)
(* std::move(p + first, p + lst, p + dfirst): move assignment, front to back *)
std_move(m, p, first, lst, dfirst) ==
    LET Assigned(m1) ==
            IF m1.thrown THEN m1 ELSE std_move(m1, p, first + 1, lst, dfirst + 1)
    IN  IF first >= lst THEN m ELSE Assigned(MoveAssign(m, p, first, p, dfirst))

RECURSIVE move_backward(_, _, _, _, _)
(* std::move_backward(p + first, p + lst, p + dlast): move assignment, back to front *)
move_backward(m, p, first, lst, dlast) ==
    LET Assigned(m1) ==
            IF m1.thrown THEN m1 ELSE move_backward(m1, p, first, lst - 1, dlast - 1)
    IN  IF first >= lst THEN m ELSE Assigned(MoveAssign(m, p, lst - 1, p, dlast - 1))

----------------------------------------------------------------------------
(* RawMemory<T> *)

Live(h, p) == p \in Regions /\ h[p] # <<>>

(* The address operator new returns: a region that is not allocated. *)
FreshRegion(h) ==
    CHOOSE p \in Regions : ~Live(h, p) /\ \A q \in Regions : q < p => Live(h, q)

EmptyRaw == [buffer_ |-> NullPtr, capacity_ |-> 0]

(* RawMemory::Allocate(n): operator new may throw; n = 0 asks for nothing. *)
(* Gives the machine after the call and the pointer returned.              *)
Allocate(m, n) ==
    LET Got(m1, p) ==
            IF m1.thrown THEN [m |-> m1, p |-> NullPtr]
            ELSE [m |-> [m1 EXCEPT !.heap[p] = [i \in 1..n |-> Raw]], p |-> p]
    IN  IF n = 0 THEN [m |-> m, p |-> NullPtr]
        ELSE Got(MayThrow(m), FreshRegion(m.heap))

(* RawMemory::Deallocate(buf): operator delete.  Deleting null does        *)
(* nothing; deleting a region that is not allocated is a double free; the  *)
(* objects still living in a freed region are never destroyed.             *)
Deallocate(m, buf) ==
    IF buf = NullPtr THEN m
    ELSE IF ~Live(m.heap, buf) THEN Fault(m, "doubleFree")
    ELSE [(IF \E i \in 1..Len(m.heap[buf]) : m.heap[buf][i] # Raw
           THEN Fault(m, "leak") ELSE m) EXCEPT !.heap[buf] = <<>>]

(* RawMemory(size_t capacity) *)
RawMemoryCtor(m, capacity) ==
    LET Made(r) == [m |-> r.m, obj |-> [buffer_ |-> r.p, capacity_ |-> capacity]]
    IN  Made(Allocate(m, capacity))

(* ~RawMemory() *)
RawMemoryDtor(m, obj) == Deallocate(m, obj.buffer_)

(* RawMemory(RawMemory&& other): gives the new object and what is left of other. *)
RawMemoryMoveCtor(other) ==
    [this |-> [buffer_ |-> other.buffer_, capacity_ |-> other.capacity_],
     other |-> [buffer_ |-> NullPtr, capacity_ |-> 0]]

(* RawMemory::Swap *)
RawSwap(this, other) == [this |-> other, other |-> this]

(* RawMemory::operator=(RawMemory&& rhs), this != &rhs: the buffer is freed, *)
(* the capacity zeroed, and the two objects are swapped; buffer_ still holds  *)
(* the freed address when it is swapped into rhs.                             *)
RawMemoryMoveAssign(m, this, rhs) ==
    LET Swapped(m1, s) == [m |-> m1, this |-> s.this, rhs |-> s.other]
    IN  Swapped(Deallocate(m, this.buffer_), RawSwap([this EXCEPT !.capacity_ = 0], rhs))

----------------------------------------------------------------------------
(* Vector<T>.  A member function takes the machine and the object(s) and   *)
(* gives the machine afterwards (m.thrown: it left by an exception) and    *)
(* the object(s) afterwards.                                               *)

EmptyVector == [data_ |-> EmptyRaw, size_ |-> 0]

(* The relocation policy of Reserve and ReAllocate (the if constexpr). *)
UseMove == T.nothrowMove \/ ~T.copyable

(* Vector::Capacity *)
Capacity(this) == this.data_.capacity_

(* Swap with the exchange of size_ forgotten. *)
Swap_DataOnly(this, other) ==
    [this  |-> [data_ |-> RawSwap(this.data_, other.data_).this,  size_ |-> this.size_],
     other |-> [data_ |-> RawSwap(this.data_, other.data_).other, size_ |-> other.size_]]

(* Vector::Swap *)
Swap(this, other) ==
    [this  |-> [data_ |-> RawSwap(this.data_, other.data_).this,  size_ |-> other.size_],
     other |-> [data_ |-> RawSwap(this.data_, other.data_).other, size_ |-> this.size_]]

(* ~Vector(): destroy the elements, then ~RawMemory releases the buffer. *)
VectorDtor(m, this) ==
    RawMemoryDtor(destroy_n(m, this.data_.buffer_, 0, this.size_), this.data_)

(* Vector(size_t size): if the allocation throws there is no object; if an  *)
(* element constructor throws the member data_ is destroyed.                *)
VectorSizedCtor(m, size) ==
    LET Filled(data, m1) ==
            IF m1.thrown THEN [m |-> RawMemoryDtor(m1, data), this |-> EmptyVector]
            ELSE [m |-> m1, this |-> [data_ |-> data, size_ |-> size]]
        Allocated(r) ==
            IF r.m.thrown THEN [m |-> r.m, this |-> EmptyVector]
            ELSE Filled(r.obj, uninitialized_value_construct_n(r.m, r.obj.buffer_, 0, size))
    IN  Allocated(RawMemoryCtor(m, size))

(* A copy constructor that shares the buffer of other instead of copying. *)
VectorCopyCtor_Shallow(m, other) ==
    [m |-> m, this |-> [data_ |-> other.data_, size_ |-> other.size_]]

(* Vector(const Vector& other) *)
VectorCopyCtor(m, other) ==
    LET Filled(data, m1) ==
            IF m1.thrown THEN [m |-> RawMemoryDtor(m1, data), this |-> EmptyVector]
            ELSE [m |-> m1, this |-> [data_ |-> data, size_ |-> other.size_]]
        Allocated(r) ==
            IF r.m.thrown THEN [m |-> r.m, this |-> EmptyVector]
            ELSE Filled(r.obj, uninitialized_copy_n(r.m, other.data_.buffer_, 0, other.size_,
                                                    r.obj.buffer_, 0))
    IN  Allocated(RawMemoryCtor(m, other.size_))

(* A move constructor that takes the buffer and leaves it with other too. *)
VectorMoveCtor_Shallow(other) == [this |-> other, other |-> other]

(* Vector(Vector&& other): a default-initialised object swapped with other. *)
VectorMoveCtor(other) == Swap(EmptyVector, other)

(* A copy assignment that always copies and swaps, whatever the capacity. *)
VectorCopyAssign_AlwaysSwap(m, this, rhs) ==
    LET Swapped(m1, s) == [m |-> VectorDtor(m1, s.other), this |-> s.this]
        Copied(c) ==
            IF c.m.thrown THEN [m |-> c.m, this |-> this]
            ELSE Swapped(c.m, Swap(this, c.this))
    IN  Copied(VectorCopyCtor(m, rhs))

(* A copy assignment that leaves the surplus elements alive when rhs is *)
(* shorter.                                                             *)
VectorCopyAssign_NoTailDestroy(m, this, rhs) ==
    LET me == this.data_.buffer_
        it == rhs.data_.buffer_
        Swapped(m1, s) == [m |-> VectorDtor(m1, s.other), this |-> s.this]
        Copied(c) ==
            IF c.m.thrown THEN [m |-> c.m, this |-> this]
            ELSE Swapped(c.m, Swap(this, c.this))
        Grown(c) ==
            IF c.thrown THEN c
            ELSE uninitialized_copy_n(c, it, this.size_, rhs.size_ - this.size_,
                                      me, this.size_)
        Sized(m1) ==
            IF m1.thrown THEN [m |-> m1, this |-> this]
            ELSE [m |-> m1, this |-> [this EXCEPT !.size_ = rhs.size_]]
    IN  IF rhs.size_ > Capacity(this)
        THEN Copied(VectorCopyCtor(m, rhs))
        ELSE IF rhs.size_ < this.size_
        THEN Sized(std_copy(m, it, 0, rhs.size_, me, 0))
        ELSE Sized(Grown(std_copy(m, it, 0, this.size_, me, 0)))

(* Vector::operator=(const Vector& rhs), this != &rhs *)
VectorCopyAssign(m, this, rhs) ==
    LET me == this.data_.buffer_
        it == rhs.data_.buffer_
        \* copy-and-swap; rhs_copy is destroyed on leaving the block
        Swapped(m1, s) == [m |-> VectorDtor(m1, s.other), this |-> s.this]
        Copied(c) ==
            IF c.m.thrown THEN [m |-> c.m, this |-> this]
            ELSE Swapped(c.m, Swap(this, c.this))
        \* rhs.size_ < size_: copy, then destroy the tail
        Shrunk(c) ==
            IF c.thrown THEN c
            ELSE destroy_n(c, me, rhs.size_, this.size_ - rhs.size_)
        \* otherwise: copy over the elements there are, construct the rest
        Grown(c) ==
            IF c.thrown THEN c
            ELSE uninitialized_copy_n(c, it, this.size_, rhs.size_ - this.size_,
                                      me, this.size_)
        Sized(m1) ==
            IF m1.thrown THEN [m |-> m1, this |-> this]
            ELSE [m |-> m1, this |-> [this EXCEPT !.size_ = rhs.size_]]
    IN  IF rhs.size_ > Capacity(this)
        THEN Copied(VectorCopyCtor(m, rhs))
        ELSE IF rhs.size_ < this.size_
        THEN Sized(Shrunk(std_copy(m, it, 0, rhs.size_, me, 0)))
        ELSE Sized(Grown(std_copy(m, it, 0, this.size_, me, 0)))

(* Vector::operator=(Vector&& rhs), this != &rhs *)
VectorMoveAssign(this, rhs) == Swap(this, rhs)

(* Reserve relocating by move whatever the element type. *)
Reserve_AlwaysMove(m, this, new_capacity) ==
    LET Swapped(m2, s) ==
            [m |-> RawMemoryDtor(m2, s.other), this |-> [this EXCEPT !.data_ = s.this]]
        Relocated(new_data, m1) ==
            IF m1.thrown THEN [m |-> RawMemoryDtor(m1, new_data), this |-> this]
            ELSE Swapped(destroy_n(m1, this.data_.buffer_, 0, this.size_),
                         RawSwap(this.data_, new_data))
        Allocated(r) ==
            IF r.m.thrown THEN [m |-> r.m, this |-> this]
            ELSE Relocated(r.obj,
                           uninitialized_move_n(r.m, this.data_.buffer_, 0, this.size_,
                                                r.obj.buffer_, 0))
    IN  IF new_capacity <= Capacity(this) THEN [m |-> m, this |-> this]
        ELSE Allocated(RawMemoryCtor(m, new_capacity))

(* Reserve releasing the old buffer without destroying its elements. *)
Reserve_NoDestroy(m, this, new_capacity) ==
    LET Swapped(m2, s) ==
            [m |-> RawMemoryDtor(m2, s.other), this |-> [this EXCEPT !.data_ = s.this]]
        Relocated(new_data, m1) ==
            IF m1.thrown THEN [m |-> RawMemoryDtor(m1, new_data), this |-> this]
            ELSE Swapped(m1, RawSwap(this.data_, new_data))
        Allocated(r) ==
            IF r.m.thrown THEN [m |-> r.m, this |-> this]
            ELSE Relocated(r.obj,
                           IF UseMove
                           THEN uninitialized_move_n(r.m, this.data_.buffer_, 0, this.size_,
                                                     r.obj.buffer_, 0)
                           ELSE uninitialized_copy_n(r.m, this.data_.buffer_, 0, this.size_,
                                                     r.obj.buffer_, 0))
    IN  IF new_capacity <= Capacity(this) THEN [m |-> m, this |-> this]
        ELSE Allocated(RawMemoryCtor(m, new_capacity))

(* Vector::operator[](index): the address of the element. *)
At(this, index) == [p |-> this.data_.buffer_, i |-> index]

(* v[index] = value: T::operator= on the reference operator[] returns; the *)
(* assignment may throw, and then leaves the element as it was.            *)
Write(m, this, index, v) ==
    LET Assigned(m1) ==
            IF m1.thrown THEN m1
            ELSE Leave(Touch(m1, At(this, index).p, index), At(this, index).p, index, v)
    IN  [m |-> Assigned(MayThrow(m)), this |-> this]

(* Reserve without the early return of line 193: it reallocates always. *)
Reserve_NoEarlyReturn(m, this, new_capacity) ==
    LET Swapped(m2, s) ==
            [m |-> RawMemoryDtor(m2, s.other), this |-> [this EXCEPT !.data_ = s.this]]
        Relocated(new_data, m1) ==
            IF m1.thrown THEN [m |-> RawMemoryDtor(m1, new_data), this |-> this]
            ELSE Swapped(destroy_n(m1, this.data_.buffer_, 0, this.size_),
                         RawSwap(this.data_, new_data))
        Allocated(r) ==
            IF r.m.thrown THEN [m |-> r.m, this |-> this]
            ELSE Relocated(r.obj,
                           IF UseMove
                           THEN uninitialized_move_n(r.m, this.data_.buffer_, 0, this.size_,
                                                     r.obj.buffer_, 0)
                           ELSE uninitialized_copy_n(r.m, this.data_.buffer_, 0, this.size_,
                                                     r.obj.buffer_, 0))
    IN  Allocated(RawMemoryCtor(m, new_capacity))

(* Vector::Reserve *)
Reserve(m, this, new_capacity) ==
    LET Swapped(m2, s) ==
            [m |-> RawMemoryDtor(m2, s.other), this |-> [this EXCEPT !.data_ = s.this]]
        Relocated(new_data, m1) ==
            IF m1.thrown THEN [m |-> RawMemoryDtor(m1, new_data), this |-> this]
            ELSE Swapped(destroy_n(m1, this.data_.buffer_, 0, this.size_),
                         RawSwap(this.data_, new_data))
        Allocated(r) ==
            IF r.m.thrown THEN [m |-> r.m, this |-> this]
            ELSE Relocated(r.obj,
                           IF UseMove
                           THEN uninitialized_move_n(r.m, this.data_.buffer_, 0, this.size_,
                                                     r.obj.buffer_, 0)
                           ELSE uninitialized_copy_n(r.m, this.data_.buffer_, 0, this.size_,
                                                     r.obj.buffer_, 0))
    IN  IF new_capacity <= Capacity(this) THEN [m |-> m, this |-> this]
        ELSE Allocated(RawMemoryCtor(m, new_capacity))

(* Resize shrinking by the size only, the surplus elements left alive. *)
Resize_NoDestroy(m, this, new_size) ==
    LET Built(t, m1) ==
            IF m1.thrown THEN [m |-> m1, this |-> t]
            ELSE [m |-> m1, this |-> [t EXCEPT !.size_ = new_size]]
        Reserved(r) ==
            IF r.m.thrown THEN r
            ELSE Built(r.this,
                       uninitialized_value_construct_n(r.m, r.this.data_.buffer_,
                                                       r.this.size_, new_size - r.this.size_))
    IN  IF new_size <= this.size_
        THEN [m |-> m, this |-> [this EXCEPT !.size_ = new_size]]
        ELSE Reserved(Reserve(m, this, new_size))

(* Vector::Resize *)
Resize(m, this, new_size) ==
    LET Built(t, m1) ==
            IF m1.thrown THEN [m |-> m1, this |-> t]
            ELSE [m |-> m1, this |-> [t EXCEPT !.size_ = new_size]]
        Reserved(r) ==
            IF r.m.thrown THEN r
            ELSE Built(r.this,
                       uninitialized_value_construct_n(r.m, r.this.data_.buffer_,
                                                       r.this.size_, new_size - r.this.size_))
    IN  IF new_size <= this.size_
        THEN [m |-> destroy_n(m, this.data_.buffer_, new_size, this.size_ - new_size),
              this |-> [this EXCEPT !.size_ = new_size]]
        ELSE Reserved(Reserve(m, this, new_size))

(* Vector::PopBack *)
PopBack(m, this) ==
    IF this.size_ > 0
    THEN [m |-> destroy_at(m, this.data_.buffer_, this.size_ - 1),
          this |-> [this EXCEPT !.size_ = @ - 1]]
    ELSE [m |-> m, this |-> this]

(* Vector::ReAllocate: relocate [0, pos_num) to the front of new_data and   *)
(* [pos_num, size_) behind slot pos_num.  Only the copying branch has a     *)
(* handler, and the handler destroys the one slot pos_num.                  *)
ReAllocate(m, this, pos_num, new_data) ==
    LET old == this.data_.buffer_
        new == new_data.buffer_
        MoveRest(m1) ==
            IF m1.thrown THEN m1
            ELSE uninitialized_move_n(m1, old, pos_num, this.size_ - pos_num,
                                      new, pos_num + 1)
        CopyRest(m1) ==
            IF m1.thrown THEN m1
            ELSE uninitialized_copy_n(m1, old, pos_num, this.size_ - pos_num,
                                      new, pos_num + 1)
        Catch(m2) == IF m2.thrown THEN destroy_at(m2, new, pos_num) ELSE m2
    IN  IF UseMove
        THEN MoveRest(uninitialized_move_n(m, old, 0, pos_num, new, 0))
        ELSE Catch(CopyRest(uninitialized_copy_n(m, old, 0, pos_num, new, 0)))

(* Emplace without the catch block of lines 268-271. *)
Emplace_NoCatch(m, this, pos_num, v) ==
    LET new_capacity == IF this.size_ = 0 THEN 1 ELSE this.size_ * 2
        buf == this.data_.buffer_
        \* size_ == Capacity(): a new buffer
        Swapped(m3, s) ==
            [m |-> RawMemoryDtor(m3, s.other),
             this |-> [data_ |-> s.this, size_ |-> this.size_ + 1],
             ret |-> pos_num]
        Relocated(new_data, m2) ==
            IF m2.thrown
            THEN [m |-> RawMemoryDtor(m2, new_data), this |-> this, ret |-> pos_num]
            ELSE Swapped(destroy_n(m2, buf, 0, this.size_), RawSwap(this.data_, new_data))
        Built(new_data, m1) ==
            IF m1.thrown
            THEN [m |-> RawMemoryDtor(m1, new_data), this |-> this, ret |-> pos_num]
            ELSE Relocated(new_data, ReAllocate(m1, this, pos_num, new_data))
        Allocated(r) ==
            IF r.m.thrown THEN [m |-> r.m, this |-> this, ret |-> pos_num]
            ELSE Built(r.obj, ArgCtor(r.m, r.obj.buffer_, pos_num, v))
        \* size_ < Capacity(): in place
        Shifted(b) == IF b.thrown THEN b ELSE destroy_at(b, buf, pos_num)
        LastMoved(c) ==
            IF c.thrown THEN c
            ELSE Shifted(move_backward(c, buf, pos_num, this.size_, this.size_ + 1))
        Opened(m1) == IF m1.thrown THEN m1 ELSE ArgCtor(m1, buf, pos_num, v)
        Placed(m2) ==
            IF m2.thrown THEN [m |-> m2, this |-> this, ret |-> pos_num]
            ELSE [m |-> m2, this |-> [this EXCEPT !.size_ = @ + 1], ret |-> pos_num]
    IN  IF this.size_ = Capacity(this)
        THEN Allocated(RawMemoryCtor(m, new_capacity))
        ELSE Placed(Opened(IF this.size_ # 0
                           THEN LastMoved(MoveCtor(m, buf, this.size_ - 1, buf, this.size_))
                           ELSE m))

(* Vector::Emplace(begin() + pos_num, args...), the new element having the  *)
(* value v.  ret is the index of the iterator returned.                     *)
Emplace(m, this, pos_num, v) ==
    LET new_capacity == IF this.size_ = 0 THEN 1 ELSE this.size_ * 2
        buf == this.data_.buffer_
        \* size_ == Capacity(): a new buffer
        Swapped(m3, s) ==
            [m |-> RawMemoryDtor(m3, s.other),
             this |-> [data_ |-> s.this, size_ |-> this.size_ + 1],
             ret |-> pos_num]
        Relocated(new_data, m2) ==
            IF m2.thrown
            THEN [m |-> RawMemoryDtor(m2, new_data), this |-> this, ret |-> pos_num]
            ELSE Swapped(destroy_n(m2, buf, 0, this.size_), RawSwap(this.data_, new_data))
        Built(new_data, m1) ==
            IF m1.thrown
            THEN [m |-> RawMemoryDtor(m1, new_data), this |-> this, ret |-> pos_num]
            ELSE Relocated(new_data, ReAllocate(m1, this, pos_num, new_data))
        Allocated(r) ==
            IF r.m.thrown THEN [m |-> r.m, this |-> this, ret |-> pos_num]
            ELSE Built(r.obj, ArgCtor(r.m, r.obj.buffer_, pos_num, v))
        \* size_ < Capacity(): in place
        Shifted(b) ==
            IF b.thrown THEN destroy_at(b, buf, this.size_)
            ELSE destroy_at(b, buf, pos_num)
        LastMoved(c) ==
            IF c.thrown THEN c
            ELSE Shifted(move_backward(c, buf, pos_num, this.size_, this.size_ + 1))
        Opened(m1) == IF m1.thrown THEN m1 ELSE ArgCtor(m1, buf, pos_num, v)
        Placed(m2) ==
            IF m2.thrown THEN [m |-> m2, this |-> this, ret |-> pos_num]
            ELSE [m |-> m2, this |-> [this EXCEPT !.size_ = @ + 1], ret |-> pos_num]
    IN  IF this.size_ = Capacity(this)
        THEN Allocated(RawMemoryCtor(m, new_capacity))
        ELSE Placed(Opened(IF this.size_ # 0
                           THEN LastMoved(MoveCtor(m, buf, this.size_ - 1, buf, this.size_))
                           ELSE m))

(* Vector::EmplaceBack: Emplace(end(), args...) *)
EmplaceBack(m, this, v) == Emplace(m, this, this.size_, v)

(* Vector::PushBack *)
PushBack(m, this, v) == EmplaceBack(m, this, v)

(* Vector::Insert *)
Insert(m, this, pos_num, v) == Emplace(m, this, pos_num, v)

(* Erase removing the last element whatever the position. *)
Erase_NoShift(m, this, pos_num) ==
    LET Popped(r) == [m |-> r.m, this |-> r.this, ret |-> pos_num]
    IN  Popped(PopBack(m, this))

(* Vector::Erase(begin() + pos_num) *)
Erase(m, this, pos_num) ==
    LET Popped(r) == [m |-> r.m, this |-> r.this, ret |-> pos_num]
        Moved(m1) ==
            IF m1.thrown THEN [m |-> m1, this |-> this, ret |-> pos_num]
            ELSE Popped(PopBack(m1, this))
    IN  Moved(std_move(m, this.data_.buffer_, pos_num + 1, this.size_, pos_num))

----------------------------------------------------------------------------
(* States and actions. *)

Dead == [alive |-> FALSE, data_ |-> EmptyRaw, size_ |-> 0]
DeadRaw == [alive |-> FALSE, buffer_ |-> NullPtr, capacity_ |-> 0]

Put(obj) == [alive |-> TRUE, data_ |-> obj.data_, size_ |-> obj.size_]
PutRaw(obj) == [alive |-> TRUE, buffer_ |-> obj.buffer_, capacity_ |-> obj.capacity_]

(* The elements of a vector as the sequence of the slots [0, size_). *)
Slots(h, v) ==
    [i \in 1..v.size_ |->
        IF Live(h, v.data_.buffer_) /\ i <= Len(h[v.data_.buffer_])
        THEN h[v.data_.buffer_][i] ELSE Raw]

(* size_ <= capacity, [0, size_) constructed, [size_, capacity) not. *)
WellFormed(h, v) ==
    /\ v.size_ <= v.data_.capacity_
    /\ IF v.data_.capacity_ = 0 THEN v.data_.buffer_ = NullPtr
       ELSE /\ Live(h, v.data_.buffer_)
            /\ Len(h[v.data_.buffer_]) = v.data_.capacity_
            /\ \A i \in 1..v.data_.capacity_ :
                   (h[v.data_.buffer_][i] # Raw) <=> (i <= v.size_)

(* Points at which a call with at most k steps that may throw can be made  *)
(* to throw: at its j-th such step, or not at all.                         *)
FailPoints(k) == {{j} : j \in 0..(k - 1)} \cup {NoFail}

(* Undefined behaviour has happened: what the program does from then on is *)
(* not defined, and no further call is modelled.                           *)
Undefined == faults \cap {"doubleDestroy", "doubleFree", "rawAccess"} # {}

(* The class invariant of every living vector.  A vector that a call left  *)
(* without it is only destroyed: every other member function would read,   *)
(* assign or destroy a slot that holds no object.                          *)
Sound == \A x \in VecNames : vec[x].alive => WellFormed(heap, vec[x])

NoRet == [p |-> NullPtr, i |-> 0]

(* The record of a call: the function, the object(s), the arguments, how   *)
(* it ended, the iterator it returned and the buffer the object had when   *)
(* it was called.  Of a call that threw only the position argument of     *)
(* Insert and Erase and the capacity asked of Reserve are kept.            *)
Called(op, x, y, arg, val, m, ret) ==
    [op |-> op, this |-> x, other |-> y,
     from |-> IF x \in VecNames THEN vec[x].data_.buffer_ ELSE raw[x].buffer_,
     arg |-> IF m.thrown /\ op \notin {"Insert", "Erase", "Reserve"} THEN 0 ELSE arg,
     val |-> IF m.thrown THEN 0 ELSE val,
     ok |-> ~m.thrown,
     ret |-> IF m.thrown THEN NoRet ELSE ret]

Quiet == Machine(NoFail)

Commit(m) == heap' = m.heap /\ faults' = m.faults

(* Nothing constructed yet. *)
Init ==
    /\ T \in ElemTypes
    /\ heap = [p \in Regions |-> <<>>]
    /\ vec = [x \in VecNames |-> Dead]
    /\ raw = [x \in RawNames |-> DeadRaw]
    /\ faults = {}
    /\ pushes = <<>>
    /\ reallocs = 0
    /\ last = Called("none", "a", "a", 0, 0, Quiet, NoRet)

DefaultConstruct(x) ==
    /\ ~Undefined
    /\ Sound
    /\ ~vec[x].alive
    /\ vec' = [vec EXCEPT ![x] = Put(EmptyVector)]
    /\ last' = Called("Vector()", x, x, 0, 0, Quiet, NoRet)
    /\ faults' = {}
    /\ UNCHANGED <<T, heap, raw, pushes, reallocs>>

SizedConstruct(x, n) ==
    /\ ~Undefined
    /\ Sound
    /\ ~vec[x].alive
    /\ \E failAt \in FailPoints(n + 1) :
         \E r \in {VectorSizedCtor(Machine(failAt), n)} :
         /\ Commit(r.m)
         /\ vec' = [vec EXCEPT ![x] = IF r.m.thrown THEN Dead ELSE Put(r.this)]
         /\ last' = Called("Vector(size)", x, x, n, 0, r.m, NoRet)
    /\ UNCHANGED <<T, raw, pushes, reallocs>>

CopyConstruct(x, y) ==
    /\ ~Undefined
    /\ Sound
    /\ T.copyable
    /\ x # y /\ ~vec[x].alive /\ vec[y].alive
    /\ \E failAt \in FailPoints(vec[y].size_ + 1) :
         \E r \in {VectorCopyCtor(Machine(failAt), vec[y])} :
         /\ Commit(r.m)
         /\ vec' = [vec EXCEPT ![x] = IF r.m.thrown THEN Dead ELSE Put(r.this)]
         /\ last' = Called("Vector(const&)", x, y, 0, 0, r.m, NoRet)
    /\ UNCHANGED <<T, raw, pushes, reallocs>>

MoveConstruct(x, y) ==
    /\ ~Undefined
    /\ Sound
    /\ x # y /\ ~vec[x].alive /\ vec[y].alive
    /\ \E s \in {VectorMoveCtor(vec[y])} :
         vec' = [vec EXCEPT ![x] = Put(s.this), ![y] = Put(s.other)]
    /\ last' = Called("Vector(&&)", x, y, 0, 0, Quiet, NoRet)
    /\ faults' = {}
    /\ UNCHANGED <<T, heap, raw, pushes, reallocs>>

Destroy(x) ==
    /\ ~Undefined
    /\ vec[x].alive
    /\ \E m \in {VectorDtor(Machine(NoFail), vec[x])} :
         /\ Commit(m)
         /\ last' = Called("~Vector", x, x, 0, 0, m, NoRet)
    /\ vec' = [vec EXCEPT ![x] = Dead]
    /\ UNCHANGED <<T, raw, pushes, reallocs>>

CopyAssignment(x, y) ==
    /\ ~Undefined
    /\ Sound
    /\ T.copyable
    /\ vec[x].alive /\ vec[y].alive
    /\ \E failAt \in FailPoints(vec[y].size_ + 1) :
         \E r \in {IF x = y THEN [m |-> Machine(failAt), this |-> vec[x]]
                   ELSE VectorCopyAssign(Machine(failAt), vec[x], vec[y])} :
         /\ Commit(r.m)
         /\ vec' = [vec EXCEPT ![x] = Put(r.this)]
         /\ last' = Called("operator=(const&)", x, y, 0, 0, r.m, NoRet)
    /\ UNCHANGED <<T, raw, pushes, reallocs>>

MoveAssignment(x, y) ==
    /\ ~Undefined
    /\ Sound
    /\ vec[x].alive /\ vec[y].alive
    /\ \E s \in {IF x = y THEN [this |-> vec[x], other |-> vec[y]]
                   ELSE VectorMoveAssign(vec[x], vec[y])} :
         vec' = [vec EXCEPT ![y] = Put(s.other), ![x] = Put(s.this)]
    /\ last' = Called("operator=(&&)", x, y, 0, 0, Quiet, NoRet)
    /\ faults' = {}
    /\ UNCHANGED <<T, heap, raw, pushes, reallocs>>

SwapVectors(x, y) ==
    /\ ~Undefined
    /\ Sound
    /\ x # y /\ vec[x].alive /\ vec[y].alive
    /\ \E s \in {Swap(vec[x], vec[y])} :
         vec' = [vec EXCEPT ![x] = Put(s.this), ![y] = Put(s.other)]
    /\ last' = Called("Swap", x, y, 0, 0, Quiet, NoRet)
    /\ faults' = {}
    /\ UNCHANGED <<T, heap, raw, pushes, reallocs>>

CallReserve(x, n) ==
    /\ ~Undefined
    /\ Sound
    /\ vec[x].alive
    /\ \E failAt \in FailPoints(vec[x].size_ + 1) :
         \E r \in {Reserve(Machine(failAt), vec[x], n)} :
         /\ Commit(r.m)
         /\ vec' = [vec EXCEPT ![x] = Put(r.this)]
         /\ last' = Called("Reserve", x, x, n, 0, r.m, NoRet)
    /\ UNCHANGED <<T, raw, pushes, reallocs>>

CallResize(x, n) ==
    /\ ~Undefined
    /\ Sound
    /\ vec[x].alive
    /\ \E failAt \in FailPoints(n + 1) :
         \E r \in {Resize(Machine(failAt), vec[x], n)} :
         /\ Commit(r.m)
         /\ vec' = [vec EXCEPT ![x] = Put(r.this)]
         /\ last' = Called("Resize", x, x, n, 0, r.m, NoRet)
    /\ UNCHANGED <<T, raw, pushes, reallocs>>

CallPopBack(x) ==
    /\ ~Undefined
    /\ Sound
    /\ vec[x].alive
    /\ \E r \in {PopBack(Machine(NoFail), vec[x])} :
         /\ Commit(r.m)
         /\ vec' = [vec EXCEPT ![x] = Put(r.this)]
         /\ last' = Called("PopBack", x, x, 0, 0, r.m, NoRet)
    /\ UNCHANGED <<T, raw, pushes, reallocs>>

CallPushBack(x, v) ==
    /\ ~Undefined
    /\ Sound
    /\ vec[x].alive
    /\ \E failAt \in FailPoints(vec[x].size_ + 2) :
         \E r \in {PushBack(Machine(failAt), vec[x], v)} :
         /\ Commit(r.m)
         /\ vec' = [vec EXCEPT ![x] = Put(r.this)]
         /\ last' = Called("PushBack", x, x, vec[x].size_, v, r.m,
                           [p |-> r.this.data_.buffer_, i |-> r.ret])
    /\ UNCHANGED <<T, raw, pushes, reallocs>>

CallInsert(x, pos, v) ==
    /\ ~Undefined
    /\ Sound
    /\ vec[x].alive
    /\ pos <= vec[x].size_
    /\ \E failAt \in FailPoints(vec[x].size_ + 2) :
         \E r \in {Insert(Machine(failAt), vec[x], pos, v)} :
         /\ Commit(r.m)
         /\ vec' = [vec EXCEPT ![x] = Put(r.this)]
         /\ last' = Called("Insert", x, x, pos, v, r.m,
                           [p |-> r.this.data_.buffer_, i |-> r.ret])
    /\ UNCHANGED <<T, raw, pushes, reallocs>>

CallErase(x, pos) ==
    /\ ~Undefined
    /\ Sound
    /\ vec[x].alive
    /\ pos < vec[x].size_
    /\ \E failAt \in FailPoints(vec[x].size_ - pos - 1) :
         \E r \in {Erase(Machine(failAt), vec[x], pos)} :
         /\ Commit(r.m)
         /\ vec' = [vec EXCEPT ![x] = Put(r.this)]
         /\ last' = Called("Erase", x, x, pos, 0, r.m,
                           [p |-> r.this.data_.buffer_, i |-> r.ret])
    /\ UNCHANGED <<T, raw, pushes, reallocs>>

CallWrite(x, index, v) ==
    /\ ~Undefined
    /\ Sound
    /\ vec[x].alive
    /\ index < vec[x].size_
    /\ \E failAt \in FailPoints(1) :
         \E r \in {Write(Machine(failAt), vec[x], index, v)} :
         /\ Commit(r.m)
         /\ vec' = [vec EXCEPT ![x] = Put(r.this)]
         /\ last' = Called("Write", x, x, index, v, r.m, At(r.this, index))
    /\ UNCHANGED <<T, raw, pushes, reallocs>>

(* One vector, a, and every member function that involves no other vector. *)
(* Calls that would take the size beyond MaxSize are not made.             *)
Next ==
    \/ DefaultConstruct("a")
    \/ \E n \in 0..MaxSize : SizedConstruct("a", n)
    \/ Destroy("a")
    \/ \E n \in 0..MaxSize : CallReserve("a", n)
    \/ \E n \in 0..MaxSize : CallResize("a", n)
    \/ CallPopBack("a")
    \/ \E v \in Val : vec["a"].size_ < MaxSize /\ CallPushBack("a", v)
    \/ \E pos \in 0..MaxSize, v \in Val : vec["a"].size_ < MaxSize /\ CallInsert("a", pos, v)
    \/ \E pos \in 0..MaxSize : CallErase("a", pos)

Spec == Init /\ [][Next]_vars

(* Two vectors, a and b, constructed, grown, copied, moved, swapped and    *)
(* destroyed, within MaxPairSize.                                          *)
NextPair ==
    \/ \E x \in VecNames : DefaultConstruct(x)
    \/ \E x \in VecNames, n \in 0..MaxPairSize : SizedConstruct(x, n)
    \/ \E x, y \in VecNames : CopyConstruct(x, y)
    \/ \E x, y \in VecNames : MoveConstruct(x, y)
    \/ \E x \in VecNames : Destroy(x)
    \/ \E x, y \in VecNames : CopyAssignment(x, y)
    \/ \E x, y \in VecNames : MoveAssignment(x, y)
    \/ \E x, y \in VecNames : SwapVectors(x, y)
    \/ \E x \in VecNames, n \in 0..MaxPairSize : CallReserve(x, n)
    \/ \E x \in VecNames, pos \in 0..MaxPairSize, v \in Val :
          vec[x].size_ < MaxPairSize /\ CallInsert(x, pos, v)

SpecPair == Init /\ [][NextPair]_vars

(* Two vectors, a and b, constructed, filled by PushBack, moved into each   *)
(* other, swapped and destroyed, within MaxPairSize.                        *)
NextMove ==
    \/ \E x \in VecNames : DefaultConstruct(x)
    \/ \E x \in VecNames, n \in 0..MaxPairSize : SizedConstruct(x, n)
    \/ \E x, y \in VecNames : MoveConstruct(x, y)
    \/ \E x \in VecNames : Destroy(x)
    \/ \E x, y \in VecNames : MoveAssignment(x, y)
    \/ \E x, y \in VecNames : SwapVectors(x, y)
    \/ \E x \in VecNames, v \in Val : vec[x].size_ < MaxPairSize /\ CallPushBack(x, v)

SpecMove == Init /\ [][NextMove]_vars

(* The vector a through every member function that keeps its buffer or     *)
(* grows it, copy assignment from the vector b = Vector(n) included, within *)
(* MaxPairSize.  b is constructed once and never modified.                  *)
NextCapacity ==
    \/ DefaultConstruct("a")
    \/ \E x \in VecNames, n \in 0..MaxPairSize : SizedConstruct(x, n)
    \/ Destroy("a")
    \/ \E y \in VecNames : CopyAssignment("a", y)
    \/ \E n \in 0..MaxPairSize : CallReserve("a", n)
    \/ \E n \in 0..MaxPairSize : CallResize("a", n)
    \/ CallPopBack("a")
    \/ \E v \in Val : vec["a"].size_ < MaxPairSize /\ CallPushBack("a", v)
    \/ \E pos \in 0..MaxPairSize, v \in Val :
          vec["a"].size_ < MaxPairSize /\ CallInsert("a", pos, v)
    \/ \E pos \in 0..MaxPairSize : CallErase("a", pos)

SpecCapacity == Init /\ [][NextCapacity]_vars

(* The vector a and a copy b of it: a is constructed and b copy constructed *)
(* from it; then either is changed through PushBack, Insert, Erase, Resize, *)
(* writes to its elements and destruction, within MaxPairSize.              *)
NextCopy ==
    \/ DefaultConstruct("a")
    \/ \E n \in 0..MaxPairSize : SizedConstruct("a", n)
    \/ CopyConstruct("b", "a")
    \/ \E x \in VecNames : Destroy(x)
    \/ \E x \in VecNames, v \in Val : vec[x].size_ < MaxPairSize /\ CallPushBack(x, v)
    \/ \E x \in VecNames, pos \in 0..MaxPairSize, v \in Val :
          vec[x].size_ < MaxPairSize /\ CallInsert(x, pos, v)
    \/ \E x \in VecNames, pos \in 0..MaxPairSize : CallErase(x, pos)
    \/ \E x \in VecNames, n \in 0..MaxPairSize : CallResize(x, n)
    \/ \E x \in VecNames, index \in 0..MaxPairSize, v \in Val : CallWrite(x, index, v)

SpecCopy == Init /\ [][NextCopy]_vars

(* The vector a beside a constant vector b, `const Vector<T> b(n);`, from   *)
(* which a is copy constructed and copy assigned; a is also grown by        *)
(* Reserve and Insert.  b is never modified.                                *)
InitAssign ==
    /\ T \in ElemTypes
    /\ \E n \in 0..MaxSize :
         /\ heap = [p \in Regions |->
                      IF p = 1 /\ n > 0 THEN [i \in 1..n |-> DefaultValue] ELSE <<>>]
         /\ vec = [x \in VecNames |->
                     IF x = "b"
                     THEN Put([data_ |-> [buffer_ |-> IF n > 0 THEN 1 ELSE NullPtr,
                                          capacity_ |-> n],
                               size_ |-> n])
                     ELSE Dead]
    /\ raw = [x \in RawNames |-> DeadRaw]
    /\ faults = {}
    /\ pushes = <<>>
    /\ reallocs = 0
    /\ last = Called("none", "a", "a", 0, 0, Quiet, NoRet)

NextAssign ==
    \/ DefaultConstruct("a")
    \/ \E n \in 0..MaxSize : SizedConstruct("a", n)
    \/ CopyConstruct("a", "b")
    \/ Destroy("a")
    \/ \E y \in VecNames : CopyAssignment("a", y)
    \/ \E n \in 0..MaxSize : CallReserve("a", n)
    \/ \E pos \in 0..MaxSize, v \in Val : vec["a"].size_ < MaxSize /\ CallInsert("a", pos, v)

SpecAssign == InitAssign /\ [][NextAssign]_vars

----------------------------------------------------------------------------
(* N sequential PushBack calls on a default-constructed vector, none of    *)
(* which throws; the k-th call pushes the value k.                         *)

InitPush ==
    /\ T \in ElemTypes
    /\ heap = [p \in Regions |-> <<>>]
    /\ vec = [x \in VecNames |-> IF x = "a" THEN Put(EmptyVector) ELSE Dead]
    /\ raw = [x \in RawNames |-> DeadRaw]
    /\ faults = {}
    /\ pushes = <<>>
    /\ reallocs = 0
    /\ last = Called("Vector()", "a", "a", 0, 0, Quiet, NoRet)

PushNext ==
    /\ ~Undefined
    /\ Len(pushes) < MaxPush
    /\ \E v \in {Len(pushes) + 1} :
         \E r \in {PushBack(Machine(NoFail), vec["a"], v)} :
         /\ Commit(r.m)
         /\ vec' = [vec EXCEPT !["a"] = Put(r.this)]
         /\ pushes' = Append(pushes, v)
         /\ reallocs' = IF r.this.data_.buffer_ # vec["a"].data_.buffer_
                        THEN reallocs + 1 ELSE reallocs
         /\ last' = Called("PushBack", "a", "a", vec["a"].size_, v, r.m,
                           [p |-> r.this.data_.buffer_, i |-> r.ret])
    /\ UNCHANGED <<T, raw>>

NextPush == PushNext

SpecPush == InitPush /\ [][NextPush]_vars

----------------------------------------------------------------------------
(* Two stand-alone RawMemory<T> objects, dst and src. *)

RawObj(x) == [buffer_ |-> raw[x].buffer_, capacity_ |-> raw[x].capacity_]

RawDefaultConstruct(x) ==
    /\ ~Undefined
    /\ ~raw[x].alive
    /\ raw' = [raw EXCEPT ![x] = PutRaw(EmptyRaw)]
    /\ last' = Called("RawMemory()", x, x, 0, 0, Quiet, NoRet)
    /\ faults' = {}
    /\ UNCHANGED <<T, heap, vec, pushes, reallocs>>

RawConstruct(x, n) ==
    /\ ~Undefined
    /\ ~raw[x].alive
    /\ \E failAt \in FailPoints(1) :
         \E r \in {RawMemoryCtor(Machine(failAt), n)} :
         /\ Commit(r.m)
         /\ raw' = [raw EXCEPT ![x] = IF r.m.thrown THEN DeadRaw ELSE PutRaw(r.obj)]
         /\ last' = Called("RawMemory(capacity)", x, x, n, 0, r.m, NoRet)
    /\ UNCHANGED <<T, vec, pushes, reallocs>>

RawMoveConstruct(x, y) ==
    /\ ~Undefined
    /\ x # y /\ ~raw[x].alive /\ raw[y].alive
    /\ \E s \in {RawMemoryMoveCtor(RawObj(y))} :
         raw' = [raw EXCEPT ![x] = PutRaw(s.this), ![y] = PutRaw(s.other)]
    /\ last' = Called("RawMemory(&&)", x, y, 0, 0, Quiet, NoRet)
    /\ faults' = {}
    /\ UNCHANGED <<T, heap, vec, pushes, reallocs>>

RawMoveAssignment(x, y) ==
    /\ ~Undefined
    /\ raw[x].alive /\ raw[y].alive
    /\ \E r \in {IF x = y THEN [m |-> Machine(NoFail), this |-> RawObj(x), rhs |-> RawObj(y)]
                   ELSE RawMemoryMoveAssign(Machine(NoFail), RawObj(x), RawObj(y))} :
         /\ Commit(r.m)
         /\ raw' = [raw EXCEPT ![y] = PutRaw(r.rhs), ![x] = PutRaw(r.this)]
         /\ last' = Called("RawMemory::operator=(&&)", x, y, 0, 0, r.m, NoRet)
    /\ UNCHANGED <<T, vec, pushes, reallocs>>

RawSwapCall(x, y) ==
    /\ ~Undefined
    /\ x # y /\ raw[x].alive /\ raw[y].alive
    /\ \E s \in {RawSwap(RawObj(x), RawObj(y))} :
         raw' = [raw EXCEPT ![x] = PutRaw(s.this), ![y] = PutRaw(s.other)]
    /\ last' = Called("RawMemory::Swap", x, y, 0, 0, Quiet, NoRet)
    /\ faults' = {}
    /\ UNCHANGED <<T, heap, vec, pushes, reallocs>>

RawDestroy(x) ==
    /\ ~Undefined
    /\ raw[x].alive
    /\ \E m \in {RawMemoryDtor(Machine(NoFail), RawObj(x))} :
         /\ Commit(m)
         /\ last' = Called("~RawMemory", x, x, 0, 0, m, NoRet)
    /\ raw' = [raw EXCEPT ![x] = DeadRaw]
    /\ UNCHANGED <<T, vec, pushes, reallocs>>

NextRaw ==
    \/ \E x \in RawNames : RawDefaultConstruct(x)
    \/ \E x \in RawNames, n \in 0..MaxRawCap : RawConstruct(x, n)
    \/ \E x, y \in RawNames : RawMoveConstruct(x, y)
    \/ \E x, y \in RawNames : RawMoveAssignment(x, y)
    \/ \E x, y \in RawNames : RawSwapCall(x, y)
    \/ \E x \in RawNames : RawDestroy(x)

SpecRaw == Init /\ [][NextRaw]_vars

----------------------------------------------------------------------------
(* Properties. *)

This == last.this
Cap(x) == vec[x].data_.capacity_
Buf(x) == vec[x].data_.buffer_
Elems(x) == Slots(heap, vec[x])

(* s without its element at index pos (0-based). *)
Without(s, pos) == SubSeq(s, 1, pos) \o SubSeq(s, pos + 2, Len(s))
(* s with v put before its element at index pos (0-based). *)
With(s, pos, v) == SubSeq(s, 1, pos) \o <<v>> \o SubSeq(s, pos + 1, Len(s))

(* C1: after any sequence of calls, calls that threw included, every living *)
(* vector has size <= capacity, a constructed element in every slot of      *)
(* [0, size) and no object in any slot of [size, capacity).                 *)
C1_ClassInvariant ==
    \A x \in VecNames : vec[x].alive => WellFormed(heap, vec[x])

(* C2: a call that throws destroys no element twice and leaks none: every   *)
(* element it constructed in a buffer that it releases is destroyed before  *)
(* the release.                                                             *)
C2_ThrowingCallLeaksNothing ==
    ~last.ok => faults \cap {"leak", "doubleDestroy"} = {}

(* C3: a successful Insert(pos, v) gives size + 1 elements, v at index pos, *)
(* the old elements of [0, pos) and of [pos, size) around it with their     *)
(* values, and returns the position pos of the new buffer.                  *)
C3_InsertPlacesValue ==
    [][(last'.op = "Insert" /\ last'.ok) =>
        LET x == last'.this IN
        /\ vec'[x].size_ = vec[x].size_ + 1
        /\ Slots(heap', vec'[x]) = With(Slots(heap, vec[x]), last'.arg, last'.val)
        /\ last'.ret = [p |-> vec'[x].data_.buffer_, i |-> last'.arg]]_vars

(* The call op on x (from y) takes a path with the strong guarantee: copy   *)
(* assignment from a source larger than the capacity, Reserve and           *)
(* full-buffer Insert when elements are relocated by copy.                  *)
StrongPath(op, x, y) ==
    \/ op = "operator=(const&)" /\ x # y /\ vec[y].size_ > Cap(x)
    \/ op = "Reserve" /\ ~UseMove
    \/ op = "Insert" /\ ~UseMove /\ vec[x].size_ = Cap(x)

(* C4: on the strong-guarantee paths (copy assignment from a source larger  *)
(* than the capacity, Reserve and full-buffer Insert when elements are      *)
(* relocated by copy) a call that throws leaves the vector with the size,   *)
(* the capacity, the buffer and the element values it had.                  *)
C4_StrongGuarantee ==
    [][(~last'.ok /\ StrongPath(last'.op, last'.this, last'.other)) =>
        LET x == last'.this IN
        /\ vec'[x] = vec[x]
        /\ Buf(x) # NullPtr => heap'[Buf(x)] = heap[Buf(x)]
        /\ Slots(heap', vec'[x]) = Slots(heap, vec[x])]_vars

(* A Reserve that had two or more elements to relocate by copy has thrown. *)
C4_Witness ==
    /\ ~last.ok /\ last.op = "Reserve" /\ ~UseMove
    /\ vec[This].size_ >= 2

(* The call c is a move construction or a move assignment between two vectors. *)
IsMove(c) == c.op \in {"Vector(&&)", "operator=(&&)"} /\ c.this # c.other

(* C5 as stated: after a move construction or a move assignment from a into *)
(* b, a has size 0 and capacity 0 and b has the size, the capacity and the  *)
(* element values a had.                                                    *)
C5_MoveEmptiesSource ==
    [][IsMove(last') =>
        LET b == last'.this
            a == last'.other
        IN  /\ vec'[a].size_ = 0 /\ vec'[a].data_.capacity_ = 0
            /\ vec'[b].size_ = vec[a].size_
            /\ vec'[b].data_ = vec[a].data_
            /\ Slots(heap', vec'[b]) = Slots(heap, vec[a])]_vars

(* C5 amended: the destination of a move has the size, the capacity, the    *)
(* buffer and the element values the source had; the source of a move       *)
(* construction is empty (size 0, capacity 0), the source of a move         *)
(* assignment has the size, the capacity and the element values the         *)
(* destination had.                                                         *)
C5_MoveTransfers ==
    [][IsMove(last') =>
        LET b == last'.this
            a == last'.other
        IN  /\ vec'[b].size_ = vec[a].size_
            /\ vec'[b].data_ = vec[a].data_
            /\ Slots(heap', vec'[b]) = Slots(heap, vec[a])
            /\ heap' = heap
            /\ IF last'.op = "Vector(&&)"
               THEN vec'[a].size_ = 0 /\ vec'[a].data_ = EmptyRaw
               ELSE /\ vec'[a].size_ = vec[b].size_
                    /\ vec'[a].data_ = vec[b].data_
                    /\ Slots(heap', vec'[a]) = Slots(heap, vec[b])]_vars

(* A move assignment between two vectors that both held elements. *)
C5_Witness ==
    /\ last.op = "operator=(&&)" /\ last.this # last.other
    /\ vec[last.this].size_ > 0 /\ vec[last.other].size_ > 0
    /\ Elems(last.this) # Elems(last.other)

(* A RawMemory of capacity 0 has a null buffer. *)
RawInvariant ==
    \A x \in RawNames : (raw[x].alive /\ raw[x].capacity_ = 0) => raw[x].buffer_ = NullPtr

(* C6: after dst = std::move(src) on two distinct RawMemory objects dst has  *)
(* the buffer and the capacity src had, src has capacity 0 and a null       *)
(* buffer, and the buffer dst had is released; no call releases a buffer a  *)
(* second time; and in every state a RawMemory of capacity 0 has a null     *)
(* buffer.                                                                  *)
C6_RawMoveAssignment ==
    [][/\ (last'.op = "RawMemory::operator=(&&)" /\ last'.this # last'.other) =>
            LET d == last'.this
                s == last'.other
            IN  /\ raw'[d].buffer_ = raw[s].buffer_
                /\ raw'[d].capacity_ = raw[s].capacity_
                /\ raw'[s].capacity_ = 0
                /\ raw'[s].buffer_ = NullPtr
                /\ raw[d].buffer_ # NullPtr => ~Live(heap', raw[d].buffer_)
       /\ "doubleFree" \notin faults'
       /\ RawInvariant']_vars

(* The smallest power of two >= n that is >= p, p a power of two. *)
RECURSIVE CeilPow2From(_, _)
CeilPow2From(p, n) == IF p >= n THEN p ELSE CeilPow2From(2 * p, n)

(* ceil(log2 n) for n >= 1, counted from p = 2^k. *)
RECURSIVE CeilLog2From(_, _, _)
CeilLog2From(k, p, n) == IF p >= n THEN k ELSE CeilLog2From(k + 1, 2 * p, n)

(* C7: N PushBack calls on a default-constructed vector give size N and the *)
(* pushed values in push order; a call acquires a new buffer only when      *)
(* size = capacity, of capacity max(1, 2 * size); so the capacity is the    *)
(* smallest power of two >= N and 1 + ceil(log2 N) buffers were acquired.   *)
C7_SequentialPushBack ==
    [][last'.op = "PushBack" =>
        LET N == Len(pushes') IN
        /\ vec'["a"].size_ = N
        /\ Slots(heap', vec'["a"]) = pushes'
        /\ vec'["a"].data_.capacity_ = CeilPow2From(1, N)
        /\ reallocs' = 1 + CeilLog2From(0, 1, N)
        /\ IF reallocs' # reallocs
           THEN /\ vec["a"].size_ = Cap("a")
                /\ vec'["a"].data_.capacity_ =
                      (IF vec["a"].size_ = 0 THEN 1 ELSE 2 * vec["a"].size_)
           ELSE vec'["a"].data_ = vec["a"].data_]_vars

(* C8: a successful Erase(pos) takes the size down by one, leaves the       *)
(* capacity and the buffer alone, keeps the elements of [0, pos), moves     *)
(* each element behind pos one index down, and returns the position pos.    *)
C8_EraseRemovesOne ==
    [][(last'.op = "Erase" /\ last'.ok) =>
        LET x == last'.this IN
        /\ vec'[x].size_ = vec[x].size_ - 1
        /\ vec'[x].data_ = vec[x].data_
        /\ Slots(heap', vec'[x]) = Without(Slots(heap, vec[x]), last'.arg)
        /\ last'.ret = [p |-> vec'[x].data_.buffer_, i |-> last'.arg]]_vars

(* An element that was not the last has been erased from a vector whose     *)
(* remaining elements differ in value.                                      *)
C8_Witness ==
    /\ last.op = "Erase" /\ last.ok /\ last.arg = 0
    /\ vec[This].size_ >= 2
    /\ Elems(This)[1] # Elems(This)[2]

(* C9: a successful Insert(pos, v) followed by Erase(pos) gives the size    *)
(* and the element values the vector had before the Insert.                 *)
C9_InsertThenErase ==
    [][(last'.op = "Insert" /\ last'.ok) =>
        LET x == last'.this
            e == Erase([heap |-> heap', fuel |-> NoFail, thrown |-> FALSE, faults |-> {}],
                       [data_ |-> vec'[x].data_, size_ |-> vec'[x].size_], last'.arg)
        IN  /\ e.this.size_ = vec[x].size_
            /\ Slots(e.m.heap, e.this) = Slots(heap, vec[x])]_vars

(* C10: a successful Reserve(n) with n > capacity gives capacity n, leaves  *)
(* the size and the element values alone, destroys every element of the old *)
(* buffer once and releases the old buffer.                                 *)
C10_ReserveGrows ==
    [][(last'.op = "Reserve" /\ last'.ok /\ last'.arg > Cap(last'.this)) =>
        LET x == last'.this IN
        /\ vec'[x].data_.capacity_ = last'.arg
        /\ vec'[x].size_ = vec[x].size_
        /\ Slots(heap', vec'[x]) = Slots(heap, vec[x])
        /\ faults' = {}
        /\ Buf(x) # NullPtr => ~Live(heap', Buf(x))
        /\ Len(heap'[vec'[x].data_.buffer_]) = last'.arg]_vars

(* A Reserve has moved two or more elements of different values to a new    *)
(* buffer.                                                                  *)
C10_Witness ==
    /\ last.op = "Reserve" /\ last.ok /\ last.arg = Cap(This)
    /\ last.from # NullPtr /\ last.from # Buf(This)
    /\ vec[This].size_ >= 2
    /\ Elems(This)[1] # Elems(This)[2]

(* C11: a successful Resize(n) ends with size n.  For n <= size the slots   *)
(* [n, size) are destroyed, each once, the elements of [0, n) keep their    *)
(* values and the buffer and the capacity stay.  For n > size the elements  *)
(* of [0, size) keep their values, the slots [size, n) hold T(), and the    *)
(* capacity is n if it was smaller and is unchanged, with the buffer, if    *)
(* it was not.                                                              *)
C11_ResizeSetsSize ==
    [][(last'.op = "Resize" /\ last'.ok) =>
        LET x   == last'.this
            n   == last'.arg
            old == Slots(heap, vec[x])
            new == Slots(heap', vec'[x])
        IN  /\ vec'[x].size_ = n
            /\ faults' = {}
            /\ IF n <= vec[x].size_
               THEN /\ vec'[x].data_ = vec[x].data_
                    /\ new = SubSeq(old, 1, n)
                    /\ \A i \in (n + 1)..vec[x].size_ : heap'[Buf(x)][i] = Raw
               ELSE /\ SubSeq(new, 1, vec[x].size_) = old
                    /\ \A i \in (vec[x].size_ + 1)..n : new[i] = DefaultValue
                    /\ vec'[x].data_.capacity_ >= n
                    /\ IF n <= Cap(x) THEN vec'[x].data_ = vec[x].data_
                       ELSE vec'[x].data_.capacity_ = n]_vars

(* A Resize has grown a vector holding a pushed value into a new buffer. *)
C11_Witness ==
    /\ last.op = "Resize" /\ last.ok
    /\ last.from # NullPtr /\ last.from # Buf(This)
    /\ vec[This].size_ >= 2
    /\ Elems(This)[1] # DefaultValue
    /\ Elems(This)[vec[This].size_] = DefaultValue

(* The other of the two vectors. *)
Peer(x) == CHOOSE y \in VecNames : y # x

(* C12: a vector b copy constructed from a has the size of a, a capacity    *)
(* equal to that size, the element values of a, and a buffer of its own;    *)
(* and every PushBack, Insert, Erase, Resize, element write and destruction *)
(* on one of the two, whether it returns or throws, leaves the size, the    *)
(* capacity, the buffer and the element values of the other as they were.   *)
C12_CopyIndependence ==
    [][/\ (last'.op = "Vector(const&)" /\ last'.ok) =>
            LET b == last'.this
                a == last'.other
            IN  /\ vec'[b].size_ = vec[a].size_
                /\ vec'[b].data_.capacity_ = vec[a].size_
                /\ Slots(heap', vec'[b]) = Slots(heap, vec[a])
                /\ vec'[b].size_ > 0 => vec'[b].data_.buffer_ # Buf(a)
                /\ vec'[a] = vec[a]
                /\ Slots(heap', vec'[a]) = Slots(heap, vec[a])
       /\ (last'.op \in {"PushBack", "Insert", "Erase", "Resize", "Write", "~Vector"}) =>
            LET y == Peer(last'.this) IN
            vec[y].alive =>
                /\ vec'[y] = vec[y]
                /\ Slots(heap', vec'[y]) = Slots(heap, vec[y])
                /\ Buf(y) # NullPtr => heap'[Buf(y)] = heap[Buf(y)]]_vars

(* An element of a has been written while its copy b is alive, and the two  *)
(* now differ.                                                              *)
C12_Witness ==
    /\ last.op = "Write" /\ last.ok /\ last.this = "a"
    /\ vec["b"].alive /\ vec["b"].size_ = vec["a"].size_
    /\ Elems("a") # Elems("b")

(* C13: when Vector(size) or Vector(const Vector&) throws, from operator    *)
(* new or from the constructor of any element, every element the call       *)
(* constructed has been destroyed once and the buffer it allocated released *)
(* once, so the heap is as before the call, no object exists, and the other *)
(* vector (the source of a copy) is unchanged.                              *)
C13_FailedConstructionRollsBack ==
    [][(last'.op \in {"Vector(size)", "Vector(const&)"} /\ ~last'.ok) =>
        /\ faults' = {}
        /\ heap' = heap
        /\ ~vec'[last'.this].alive
        /\ vec' = vec]_vars

(* A copy construction from a source of two or more elements has thrown. *)
C13_Witness ==
    /\ last.op = "Vector(const&)" /\ ~last.ok
    /\ vec[last.other].alive /\ vec[last.other].size_ >= 2
    /\ ~vec[This].alive

(* C14: no two living vectors have the same non-null buffer; a buffer is    *)
(* never released twice; the allocated regions are exactly the buffers of   *)
(* the living vectors, so that once every vector is destroyed every region  *)
(* that was allocated has been released.                                    *)
C14_BuffersOwnedOnce ==
    /\ \A x, y \in VecNames :
          (x # y /\ vec[x].alive /\ vec[y].alive /\ Buf(x) # NullPtr) => Buf(x) # Buf(y)
    /\ "doubleFree" \notin faults
    /\ \A p \in Regions :
          Live(heap, p) <=> \E x \in VecNames : vec[x].alive /\ Buf(x) = p
    /\ (\A x \in VecNames : ~vec[x].alive) => \A p \in Regions : heap[p] = <<>>

(* The last living vector has been destroyed, it had a buffer, and no      *)
(* region remains allocated.                                                *)
C14_Witness ==
    /\ last.op = "~Vector" /\ last.from # NullPtr
    /\ \A x \in VecNames : ~vec[x].alive
    /\ \A p \in Regions : heap[p] = <<>>

(* C15: Reserve, Resize, PushBack, Insert, Erase, PopBack and copy          *)
(* assignment, whether they return or throw, leave the vector with a        *)
(* capacity at least as large as the one it had.                            *)
C15_CapacityNeverShrinks ==
    [][(last'.op \in {"Reserve", "Resize", "PushBack", "Insert", "Erase", "PopBack",
                      "operator=(const&)"}) =>
        vec'[last'.this].data_.capacity_ >= vec[last'.this].data_.capacity_]_vars

(* A copy assignment from a shorter vector has returned, and the capacity   *)
(* is still above the size of the source.                                   *)
C15_Witness ==
    /\ last.op = "operator=(const&)" /\ last.ok /\ last.this # last.other
    /\ vec[This].size_ = vec[last.other].size_
    /\ Cap(This) > vec[last.other].size_
    /\ Cap(This) >= 2

(* C16: Reserve(n) with n <= capacity returns without throwing and leaves   *)
(* the heap and the vector (size, capacity, buffer, element values) exactly *)
(* as they were: it allocates nothing and touches no element.               *)
C16_ReserveWithinCapacity ==
    [][(last'.op = "Reserve" /\ last'.arg <= Cap(last'.this)) =>
        /\ last'.ok
        /\ faults' = {}
        /\ heap' = heap
        /\ vec' = vec]_vars

(* Reserve(n) has been called with n between the size and the capacity of a *)
(* vector that holds elements.                                              *)
C16_Witness ==
    /\ last.op = "Reserve" /\ last.ok
    /\ last.from # NullPtr /\ last.from = Buf(This)
    /\ vec[This].size_ >= 1
    /\ last.arg > vec[This].size_ /\ last.arg < Cap(This)

(* The number of steps of Emplace that may throw before the constructor of  *)
(* the new element: operator new on the full-buffer path (254); on the      *)
(* free-capacity path the move construction of line 264, when T's move      *)
(* constructor may throw, and the size - pos assignments of line 266.       *)
StepsBeforeArgCtor(this, pos_num) ==
    IF this.size_ = Capacity(this) THEN 1
    ELSE IF this.size_ = 0 THEN 0
    ELSE (IF T.nothrowMove THEN 0 ELSE 1) + (this.size_ - pos_num)

(* The call recorded in last' is an Insert or PushBack in which the         *)
(* constructor of the new element threw.                                    *)
ArgCtorThrew ==
    /\ last'.op \in {"Insert", "PushBack"} /\ ~last'.ok
    /\ LET x == last'.this
           pos == IF last'.op = "PushBack" THEN vec[x].size_ ELSE last'.arg
       IN  \E v \in Val :
           \E r \in {Emplace(Machine({StepsBeforeArgCtor(vec[x], pos)}), vec[x], pos, v)} :
               r.m.thrown /\ heap' = r.m.heap /\ faults' = r.m.faults

(* C17: when the constructor of the new element throws in Insert or         *)
(* PushBack, on either path and at any position, the size is unchanged,     *)
(* every slot of [0, size) holds an element, no slot from size on holds     *)
(* one, and the call has leaked nothing and destroyed nothing twice.        *)
C17_ThrowingElementKeepsConsistent ==
    [][ArgCtorThrew =>
        LET x == last'.this IN
        /\ vec'[x].size_ = vec[x].size_
        /\ WellFormed(heap', vec'[x])
        /\ faults' \cap {"leak", "doubleDestroy"} = {}]_vars

(* C18: a copy assignment a = b between two vectors that returns gives a    *)
(* the size and the element values of b and leaves b alone.  When b.size    *)
(* was within the capacity of a, a keeps its buffer and capacity, and the   *)
(* slots from b.size on hold no object; otherwise a has a new buffer of     *)
(* capacity b.size and its old buffer is released with every element        *)
(* destroyed once.                                                          *)
C18_CopyAssignment ==
    [][(last'.op = "operator=(const&)" /\ last'.ok /\ last'.this # last'.other) =>
        LET a == last'.this
            b == last'.other
        IN  /\ vec'[a].size_ = vec[b].size_
            /\ Slots(heap', vec'[a]) = Slots(heap, vec[b])
            /\ vec'[b] = vec[b]
            /\ Buf(b) # NullPtr => heap'[Buf(b)] = heap[Buf(b)]
            /\ faults' = {}
            /\ WellFormed(heap', vec'[a])
            /\ IF vec[b].size_ <= Cap(a)
               THEN vec'[a].data_ = vec[a].data_
               ELSE /\ vec'[a].data_.capacity_ = vec[b].size_
                    /\ vec'[a].data_.buffer_ # Buf(a)
                    /\ Buf(a) # NullPtr => heap'[Buf(a)] = <<>>]_vars

(* A copy assignment from a vector of one or more elements has returned     *)
(* with the buffer the target had, whose capacity exceeds the new size.     *)
C18_Witness ==
    /\ last.op = "operator=(const&)" /\ last.ok /\ last.this # last.other
    /\ last.from # NullPtr /\ last.from = Buf(This)
    /\ vec[This].size_ >= 1
    /\ Cap(This) > vec[This].size_

(* The call recorded in last' is an Insert on the free-capacity path in     *)
(* which one of the size - pos assignments of std::move_backward threw.     *)
ShiftThrew ==
    /\ last'.op = "Insert" /\ ~last'.ok
    /\ LET x == last'.this
           pos == last'.arg
           first == IF T.nothrowMove THEN 0 ELSE 1
       IN  /\ vec[x].size_ > 0 /\ vec[x].size_ < Cap(x)
           /\ \E v \in Val, k \in first..(first + vec[x].size_ - pos - 1) :
              \E r \in {Emplace(Machine({k}), vec[x], pos, v)} :
                  r.m.thrown /\ heap' = r.m.heap /\ faults' = r.m.faults

(* C19: when an assignment of the backward shift throws on the              *)
(* free-capacity path of Emplace, the element constructed in slot size is   *)
(* destroyed once, the size, capacity and buffer are unchanged, every slot  *)
(* of [0, size) holds an element and no slot from size on holds one.        *)
C19_FailedShiftRestoresTail ==
    [][ShiftThrew =>
        LET x == last'.this IN
        /\ vec'[x] = vec[x]
        /\ WellFormed(heap', vec'[x])
        /\ heap'[Buf(x)][vec[x].size_ + 1] = Raw
        /\ \A i \in 1..vec[x].size_ : heap'[Buf(x)][i] # Raw
        /\ faults' = {}]_vars

(* An Insert before the last of two or more elements has thrown on the      *)
(* free-capacity path after the last element had been moved from.           *)
C19_Witness ==
    /\ last.op = "Insert" /\ ~last.ok
    /\ vec[This].size_ >= 2 /\ vec[This].size_ < Cap(This)
    /\ last.arg < vec[This].size_ - 1
    /\ WellFormed(heap, vec[This])
    /\ Elems(This)[vec[This].size_] = MovedFrom
    /\ Elems(This)[1] # MovedFrom

====
